---------------------------- MODULE Spec2Model ----------------------------
(***************************************************************************)
(* Marker map client: the shared marker list (MarkersContext), the map     *)
(* view in its web and native variants (MapComponent), the marker form     *)
(* (Formulario), the CSV importer (CsvImporter) and the submission of the  *)
(* list to the optimisation service (Home.Enviar / submit).                *)
(*                                                                         *)
(* JavaScript values are represented as follows.                           *)
(*   string     a sequence of one-character strings                        *)
(*   number     [num |-> m, exp |-> e], the decimal m / 10^e, normalised   *)
(*   NaN        [nan |-> TRUE]                                             *)
(*   null or undefined value of a nullable slot: <<>>; a present value v   *)
(*              is <<v>>                                                   *)
(*   array      a sequence; a hole of a sparse array is Hole, an element   *)
(*              that is undefined is Undefined                             *)
(***************************************************************************)
EXTENDS Integers, Sequences, FiniteSets

(***************************************************************************)
(* Bounds of the model.                                                    *)
(***************************************************************************)
\* longest marker list the user builds by hand (appending stops there)
MaxMarkers == 2
\* CSV imports whose file read is still in flight
MaxPendingImports == 1
\* submissions (invocations of Enviar) in one run
MaxEnvios == 2

(***************************************************************************)
(* Nullable slots.                                                         *)
(***************************************************************************)
Null == <<>>
Some(v) == <<v>>
IsNull(o) == o = <<>>
Val(o) == o[1]

(***************************************************************************)
(* Strings.                                                                *)
(***************************************************************************)
UpperChars ==
  <<"A","B","C","D","E","F","G","H","I","J","K","L","M","N","O","P","Q","R",
    "S","T","U","V","W","X","Y","Z","Ç","Ã">>
LowerChars ==
  <<"a","b","c","d","e","f","g","h","i","j","k","l","m","n","o","p","q","r",
    "s","t","u","v","w","x","y","z","ç","ã">>
Whitespace == {" ", "\t", "\n", "\r"}
Digits == <<"0","1","2","3","4","5","6","7","8","9">>

IsDigit(c) == \E i \in 1..Len(Digits) : Digits[i] = c
DigitValue(c) == (CHOOSE i \in 1..Len(Digits) : Digits[i] = c) - 1

\* String.prototype.toLowerCase
toLowerCaseChar(c) ==
  IF \E i \in 1..Len(UpperChars) : UpperChars[i] = c
  THEN LowerChars[CHOOSE i \in 1..Len(UpperChars) : UpperChars[i] = c]
  ELSE c
toLowerCase(s) == [i \in 1..Len(s) |-> toLowerCaseChar(s[i])]

\* String.prototype.trim
RECURSIVE trimStart(_)
trimStart(s) ==
  IF s # <<>> /\ Head(s) \in Whitespace THEN trimStart(Tail(s)) ELSE s
RECURSIVE trimEnd(_)
trimEnd(s) ==
  IF s # <<>> /\ s[Len(s)] \in Whitespace
  THEN trimEnd(SubSeq(s, 1, Len(s) - 1)) ELSE s
trim(s) == trimEnd(trimStart(s))

\* String.prototype.includes
includes(s, sub) ==
  \E i \in 1..(Len(s) - Len(sub) + 1) : SubSeq(s, i, i + Len(sub) - 1) = sub

\* String.prototype.split with a one-character separator
RECURSIVE splitFrom(_, _, _)
splitFrom(s, sep, piece) ==
  IF s = <<>> THEN <<piece>>
  ELSE IF Head(s) = sep THEN <<piece>> \o splitFrom(Tail(s), sep, <<>>)
  ELSE splitFrom(Tail(s), sep, Append(piece, Head(s)))
split(s, sep) == splitFrom(s, sep, <<>>)

\* Array.prototype.includes
Contains(seq, x) == \E i \in 1..Len(seq) : seq[i] = x

\* Array.prototype.filter with a predicate on the element
RECURSIVE SelectSeqNot(_, _)
SelectSeqNot(seq, x) ==
  IF seq = <<>> THEN <<>>
  ELSE IF Head(seq) # x THEN <<Head(seq)>> \o SelectSeqNot(Tail(seq), x)
  ELSE SelectSeqNot(Tail(seq), x)

(***************************************************************************)
(* Numbers.                                                                *)
(***************************************************************************)
NaN == [nan |-> TRUE]
RECURSIVE Normal(_, _)
Normal(m, e) ==
  IF e > 0 /\ m % 10 = 0 THEN Normal(m \div 10, e - 1)
  ELSE [num |-> m, exp |-> e]
Num(n) == [num |-> n, exp |-> 0]
Str(s) == [str |-> s]

\* the longest prefix of s made of digits
RECURSIVE digitPrefix(_)
digitPrefix(s) ==
  IF s # <<>> /\ IsDigit(Head(s)) THEN <<Head(s)>> \o digitPrefix(Tail(s))
  ELSE <<>>
RECURSIVE digitsValue(_, _)
digitsValue(ds, acc) ==
  IF ds = <<>> THEN acc
  ELSE digitsValue(Tail(ds), 10 * acc + DigitValue(Head(ds)))

\* parseInt(s, 10): leading white space, a sign, then the digits; NaN when
\* there is no digit
parseInt(s) ==
  LET t == trimStart(s)
      neg == t # <<>> /\ Head(t) = "-"
      u == IF t # <<>> /\ Head(t) \in {"-", "+"} THEN Tail(t) ELSE t
      ds == digitPrefix(u)
  IN IF ds = <<>> THEN NaN
     ELSE Num(IF neg THEN 0 - digitsValue(ds, 0) ELSE digitsValue(ds, 0))

\* parseFloat(s) of a present string: as parseInt, with an optional
\* fraction (exponents are not used by the files modelled)
parseFloatStr(s) ==
  LET t == trimStart(s)
      neg == t # <<>> /\ Head(t) = "-"
      u == IF t # <<>> /\ Head(t) \in {"-", "+"} THEN Tail(t) ELSE t
      ip == digitPrefix(u)
      rest == SubSeq(u, Len(ip) + 1, Len(u))
      fp == IF rest # <<>> /\ Head(rest) = "." THEN digitPrefix(Tail(rest))
            ELSE <<>>
      m == digitsValue(ip \o fp, 0)
  IN IF ip = <<>> /\ fp = <<>> THEN NaN
     ELSE Normal(IF neg THEN 0 - m ELSE m, Len(fp))
\* parseFloat of a field that may be absent: parseFloat(undefined) is NaN
parseFloat(o) == IF IsNull(o) THEN NaN ELSE parseFloatStr(Val(o))

(***************************************************************************)
(* Fixed vocabulary of the program.                                        *)
(***************************************************************************)
mercado == <<"m","e","r","c","a","d","o">>
produtor == <<"p","r","o","d","u","t","o","r">>
Tipos == {mercado, produtor}

Uva == <<"U","v","a">>
Kiwi == <<"K","i","w","i">>
Melancia == <<"M","e","l","a","n","c","i","a">>
Pera == <<"P","e","r","a">>
frutasDisponiveis ==
  << <<"M","a","ç","ã">>, <<"B","a","n","a","n","a">>,
     <<"L","a","r","a","n","j","a">>, <<"M","a","n","g","a">>,
     <<"A","b","a","c","a","x","i">>, Uva,
     Melancia, Pera,
     <<"M","a","m","ã","o">>, <<"L","i","m","ã","o">>, Kiwi >>

(***************************************************************************)
(* Sparse arrays: what the array operations of MapComponent do with a      *)
(* hole, and what rendering does with an undefined element.                *)
(***************************************************************************)
Hole == [hole |-> TRUE]
Undefined == [undefined |-> TRUE]
IsMarker(e) == e # Hole /\ e # Undefined

\* [...array]: a hole is copied as undefined
spread(arr) == [i \in 1..Len(arr) |-> IF arr[i] = Hole THEN Undefined ELSE arr[i]]
\* array[i] = v on a copy, i counted from 0; writing past the end leaves holes
assignAt(arr, i, v) ==
  [k \in 1..(IF i + 1 > Len(arr) THEN i + 1 ELSE Len(arr)) |->
     IF k = i + 1 THEN v ELSE IF k <= Len(arr) THEN arr[k] ELSE Hole]
\* array.filter((_, k) => k !== i), i counted from 0; filter skips holes
RECURSIVE filterNotIndexFrom(_, _, _)
filterNotIndexFrom(arr, i, k) ==
  IF k > Len(arr) THEN <<>>
  ELSE IF arr[k] = Hole \/ k = i + 1 THEN filterNotIndexFrom(arr, i, k + 1)
  ELSE <<arr[k]>> \o filterNotIndexFrom(arr, i, k + 1)
filterNotIndex(arr, i) == filterNotIndexFrom(arr, i, 1)
\* markers.map((m, i) => ... m.coords ...) throws on an undefined element
renderThrows(arr) == \E k \in 1..Len(arr) : arr[k] = Undefined

(***************************************************************************)
(* CsvImporter: the mapping of the parsed rows.  A row is what the parser  *)
(* hands over under header: true, a record of nullable string fields.      *)
(***************************************************************************)
\* row.tipo?.trim().toLowerCase() || "mercado"
rowType(row) ==
  IF IsNull(row.tipo) THEN mercado
  ELSE LET t == toLowerCase(trim(Val(row.tipo)))
       IN IF t = <<>> THEN mercado ELSE t
\* row.produtos ? row.produtos.split(",").map((f) => f.trim()) : []
rowFrutas(row) ==
  IF IsNull(row.produtos) \/ Val(row.produtos) = <<>> THEN <<>>
  ELSE LET parts == split(Val(row.produtos), ",")
       IN [i \in 1..Len(parts) |-> trim(parts[i])]
\* row.quantidade.trim() on an absent field throws a TypeError
rowThrows(row) == IsNull(row.quantidade)
\* row.quantidade.trim().toLowerCase() || 10
rowQuantidade(row) ==
  LET q == toLowerCase(trim(Val(row.quantidade)))
  IN IF q = <<>> THEN Num(10) ELSE Str(q)
rowToMarker(row) ==
  [type |-> rowType(row),
   coords |-> [lat |-> parseFloat(row.lat), lng |-> parseFloat(row.long)],
   frutas |-> rowFrutas(row),
   quantidade |-> rowQuantidade(row)]
\* results.data.map(...) throws as soon as one row does
csvThrows(rows) == \E i \in 1..Len(rows) : rowThrows(rows[i])
csvMarkersOf(rows) == [i \in 1..Len(rows) |-> rowToMarker(rows[i])]

(***************************************************************************)
(* Formulario: the pure parts.                                             *)
(***************************************************************************)
\* the suggestions without the test that leaves the selected products out
frutasFiltradas_all(busca, selecionadas) ==
  {frutasDisponiveis[i] : i \in
     {k \in 1..Len(frutasDisponiveis) :
        includes(toLowerCase(frutasDisponiveis[k]), toLowerCase(busca))}}
\* frutasDisponiveis.filter(f => f.toLowerCase().includes(busca.toLowerCase())
\*                               && !selecionadas.includes(f))
frutasFiltradas(busca, selecionadas) ==
  {frutasDisponiveis[i] : i \in
     {k \in 1..Len(frutasDisponiveis) :
        /\ includes(toLowerCase(frutasDisponiveis[k]), toLowerCase(busca))
        /\ ~Contains(selecionadas, frutasDisponiveis[k])}}
\* setSelecionadas([...selecionadas, fruta])
adicionarFruta(selecionadas, fruta) == Append(selecionadas, fruta)
\* setSelecionadas(selecionadas.filter((f) => f !== fruta))
removerFruta(selecionadas, fruta) == SelectSeqNot(selecionadas, fruta)
\* the state of a freshly mounted form, after its effect has run
formularioMounted(markerType_, coords_, frutas_) ==
  [quantidade |-> <<>>,
   tipo |-> markerType_,
   busca |-> <<>>,
   selecionadas |-> IF ~IsNull(coords_) /\ ~IsNull(frutas_) THEN Val(frutas_)
                    ELSE <<>>]

(***************************************************************************)
(* MapComponent: the pure parts of handleSave and handleDelete.            *)
(***************************************************************************)
\* the marker handleSave builds from the data the form emits
markerOfData(data) ==
  [type |-> data.tipo, coords |-> data.coords, frutas |-> data.frutas,
   quantidade |-> parseInt(data.quantidade)]
\* handleSave with the new marker put first instead of last
handleSaveMarkers_unshift(plat, ms, sel, data) ==
  IF ~IsNull(sel)
  THEN IF plat = "web" THEN assignAt(spread(ms), Val(sel), markerOfData(data))
       ELSE ms
  ELSE <<markerOfData(data)>> \o spread(ms)
\* the list handleSave leaves in the store
handleSaveMarkers(plat, ms, sel, data) ==
  IF ~IsNull(sel)
  THEN IF plat = "web" THEN assignAt(spread(ms), Val(sel), markerOfData(data))
       ELSE ms   \* the native variant builds the copy and drops it
  ELSE Append(spread(ms), markerOfData(data))
\* the list handleDelete leaves in the store
handleDeleteMarkers(ms, sel) ==
  IF ~IsNull(sel) THEN filterNotIndex(ms, Val(sel)) ELSE ms
\* the effect merging the imported markers into the list instead
importedEffect_concat(ms, importedMarkers) == ms \o importedMarkers
\* useEffect(() => setMarkers(importedMarkers), [importedMarkers])
importedEffect(ms, importedMarkers) == importedMarkers

(***************************************************************************)
(* connection.submit: JSON.stringify of the marker list.  NaN, a hole and  *)
(* undefined are all written as null.                                      *)
(***************************************************************************)
JsonNull == [json |-> "null"]
jsonNumber(n) == IF n = NaN THEN JsonNull ELSE n
jsonCoords(c) ==
  IF "lat" \in DOMAIN c
  THEN [lat |-> jsonNumber(c.lat), lng |-> jsonNumber(c.lng)]
  ELSE [latitude |-> jsonNumber(c.latitude), longitude |-> jsonNumber(c.longitude)]
jsonMarker(m) ==
  IF ~IsMarker(m) THEN JsonNull
  ELSE [type |-> m.type, coords |-> jsonCoords(m.coords), frutas |-> m.frutas,
        quantidade |-> jsonNumber(m.quantidade)]
stringify(ms) == [i \in 1..Len(ms) |-> jsonMarker(ms[i])]

(***************************************************************************)
(* Inputs: the coordinates the user clicks, the texts typed into the form, *)
(* the CSV files picked (as the parser's rows) and the bodies the service  *)
(* answers with.                                                           *)
(***************************************************************************)
Platforms == {"web", "native"}

\* e.latlng on the web, e.nativeEvent.coordinate on native
clickCoordinate(plat, lat_, lng_) ==
  IF plat = "web" THEN [lat |-> lat_, lng |-> lng_]
  ELSE [latitude |-> lat_, longitude |-> lng_]
ClickPoints == { <<Normal(-2461, 2), Normal(-5157, 2)>> }


rowProdutor ==
  [tipo |-> Some(<<" ","P","r","o","d","u","t","o","r">>),
   lat |-> Some(<<"-","2","4",".","5">>), long |-> Some(<<"-","5","1">>),
   produtos |-> Some(<<"U","v","a",","," ","K","i","w","i">>),
   quantidade |-> Some(<<" ","2","0"," ">>)]
rowSemTipo ==
  [tipo |-> Null,
   lat |-> Some(<<"-","2","5">>), long |-> Some(<<"-","4","9",".","2">>),
   produtos |-> Some(<<>>), quantidade |-> Some(<<>>)]
rowFabrica ==
  [tipo |-> Some(<<"F","a","b","r","i","c","a">>),
   lat |-> Some(<<"-","2","5">>), long |-> Some(<<"-","4","9",".","2">>),
   produtos |-> Some(<<"U","v","a">>), quantidade |-> Some(<<"5">>)]
\* a line with too few fields: the parser leaves the last column out
rowCurta ==
  [tipo |-> Some(mercado),
   lat |-> Some(<<"-","2","3">>), long |-> Some(<<"-","5","0">>),
   produtos |-> Some(<<"U","v","a">>), quantidade |-> Null]
\* the same product twice
rowRepetida ==
  [tipo |-> Some(produtor),
   lat |-> Some(<<"-","2","3">>), long |-> Some(<<"-","5","0">>),
   produtos |-> Some(<<"P","e","r","a",",","P","e","r","a">>),
   quantidade |-> Some(<<"3">>)]

FileNames ==
  {"um.csv", "dois.csv", "vazio.csv", "tipos.csv", "curta.csv", "repetida.csv"}
fileRows(name) ==
  CASE name = "um.csv" -> <<rowFabrica>>
    [] name = "dois.csv" -> <<rowProdutor, rowSemTipo>>
    [] name = "vazio.csv" -> <<>>
    [] name = "tipos.csv" -> <<rowSemTipo, rowFabrica>>
    [] name = "curta.csv" -> <<rowSemTipo, rowCurta>>
    [] name = "repetida.csv" -> <<rowRepetida>>

\* bodies of the service's answers (OptimizationResult), told apart by cost
Results ==
  { [optimal_location_coord |-> [lat |-> Num(-25), lng |-> Num(-50)],
     total_cost |-> Num(c), routes |-> <<>>] : c \in {100, 200} }

(***************************************************************************)
(* State.                                                                  *)
(***************************************************************************)
VARIABLES
  platform,             \* which MapComponent the platform dispatch loads
  markers,              \* MarkersProvider: useState([])
  csvMarkers,           \* Home: useState([])
  markerOtimo,          \* Home: useState(null)
  showForm,             \* MapComponent: useState(false)
  markerType,           \* MapComponent: useState("mercado")
  newMarkerCoords,      \* MapComponent: useState(null)
  selectedMarkerIndex,  \* MapComponent: useState(null), counted from 0
  frutas,               \* MapComponent: useState(null)
  formulario,           \* state of the mounted Formulario, Null when unmounted
  pendingImports,       \* file name -> imports of it whose read is in flight
  envios,               \* invocation of Enviar -> its position and data
  crashed               \* a render threw: the tree is unmounted

vars == <<platform, markers, csvMarkers, markerOtimo, showForm, markerType,
          newMarkerCoords, selectedMarkerIndex, frutas, formulario,
          pendingImports, envios, crashed>>

mapVars == <<showForm, markerType, newMarkerCoords, selectedMarkerIndex, frutas>>

EnvioIds == 1..MaxEnvios
envioIdle == [pc |-> "idle"]

Init ==
  /\ platform \in Platforms
  /\ markers = <<>>
  /\ csvMarkers = <<>>
  /\ markerOtimo = Null
  /\ showForm = FALSE
  /\ markerType = mercado
  /\ newMarkerCoords = Null
  /\ selectedMarkerIndex = Null
  /\ frutas = Null
  /\ formulario = Null
  /\ pendingImports = [f \in FileNames |-> 0]
  /\ envios = [i \in EnvioIds |-> envioIdle]
  /\ crashed = FALSE

\* the screen takes input: nothing has thrown while rendering
Running == ~crashed
\* the map and the buttons under the form's overlay take input
MapReachable == Running /\ ~showForm
\* the form is on screen
FormOpen == Running /\ showForm /\ ~IsNull(formulario)

\* the data salvar hands to onSave
formData ==
  [tipo |-> Val(formulario).tipo, coords |-> Val(newMarkerCoords),
   frutas |-> Val(formulario).selecionadas,
   quantidade |-> Val(formulario).quantidade]

(***************************************************************************)
(* MapComponent: clicks.                                                   *)
(***************************************************************************)
\* ClickHandler onClick (web), MapView onPress (native)
MapClick(pt) ==
  /\ MapReachable
  /\ selectedMarkerIndex' = Null
  /\ frutas' = Null
  /\ newMarkerCoords' = Some(clickCoordinate(platform, pt[1], pt[2]))
  /\ markerType' = mercado
  /\ showForm' = TRUE
  /\ formulario' = Some(formularioMounted(markerType', newMarkerCoords', frutas'))
  /\ UNCHANGED <<platform, markers, csvMarkers, markerOtimo, pendingImports,
                 envios, crashed>>

\* what the marker's click handler stores, as <<index, coords, frutas, type>>
markerClickState(ms, i) ==
  <<Some(i), Some(ms[i + 1].coords), Some(ms[i + 1].frutas), ms[i + 1].type>>

\* Marker eventHandlers.click (web), Marker onPress (native); i from 0
MarkerClick(i) ==
  /\ MapReachable
  /\ i + 1 \in 1..Len(markers)
  /\ IsMarker(markers[i + 1])
  /\ LET st == markerClickState(markers, i)
     IN /\ selectedMarkerIndex' = st[1]
        /\ newMarkerCoords' = st[2]
        /\ frutas' = st[3]
        /\ markerType' = st[4]
  /\ showForm' = TRUE
  /\ formulario' = Some(formularioMounted(markerType', newMarkerCoords', frutas'))
  /\ UNCHANGED <<platform, markers, csvMarkers, markerOtimo, pendingImports,
                 envios, crashed>>

(***************************************************************************)
(* Formulario: editing.                                                    *)
(***************************************************************************)
FormEdit(newForm) ==
  /\ formulario' = Some(newForm)
  /\ UNCHANGED <<platform, markers, csvMarkers, markerOtimo, mapVars,
                 pendingImports, envios, crashed>>

SetTipo(t) ==
  /\ FormOpen
  /\ FormEdit([Val(formulario) EXCEPT !.tipo = t])

SetQuantidade(q) ==
  /\ FormOpen
  /\ FormEdit([Val(formulario) EXCEPT !.quantidade = q])

SetBusca(b) ==
  /\ FormOpen
  /\ FormEdit([Val(formulario) EXCEPT !.busca = b])

\* a suggestion is pressed: the list shows only when busca is not empty
AdicionarFruta(f) ==
  /\ FormOpen
  /\ Len(Val(formulario).busca) > 0
  /\ f \in frutasFiltradas(Val(formulario).busca, Val(formulario).selecionadas)
  /\ FormEdit([Val(formulario) EXCEPT
                 !.selecionadas = adicionarFruta(@, f), !.busca = <<>>])

\* the suggestions on screen: busca.length > 0 && frutasFiltradas.length > 0
sugestoes ==
  IF FormOpen /\ Len(Val(formulario).busca) > 0
  THEN frutasFiltradas(Val(formulario).busca, Val(formulario).selecionadas)
  ELSE {}

RemoverFruta(f) ==
  /\ FormOpen
  /\ FormEdit([Val(formulario) EXCEPT !.selecionadas = removerFruta(@, f)])

(***************************************************************************)
(* Formulario: the three buttons, each with the parent's handler it calls. *)
(***************************************************************************)
\* onClose: the web variant hides the form, the native one also clears the
\* selection
onCloseIndex(plat, sel) == IF plat = "web" THEN sel ELSE Null

StoreUpdate(ms) ==
  /\ markers' = ms
  /\ crashed' = renderThrows(ms)

\* salvar: onSave(data) = handleSave, then onClose()
Salvar ==
  /\ FormOpen
  /\ IsNull(selectedMarkerIndex) => Len(markers) < MaxMarkers
  /\ StoreUpdate(handleSaveMarkers(platform, markers, selectedMarkerIndex, formData))
  /\ selectedMarkerIndex' = Null
  /\ showForm' = FALSE
  /\ formulario' = Null
  /\ UNCHANGED <<platform, csvMarkers, markerOtimo, markerType, newMarkerCoords,
                 frutas, pendingImports, envios>>

\* Cancelar: onClose()
Cancelar ==
  /\ FormOpen
  /\ selectedMarkerIndex' = onCloseIndex(platform, selectedMarkerIndex)
  /\ showForm' = FALSE
  /\ formulario' = Null
  /\ UNCHANGED <<platform, markers, csvMarkers, markerOtimo, markerType,
                 newMarkerCoords, frutas, pendingImports, envios, crashed>>

\* excluir: onDelete() = handleDelete, then onClose()
Excluir ==
  /\ FormOpen
  /\ StoreUpdate(handleDeleteMarkers(markers, selectedMarkerIndex))
  /\ selectedMarkerIndex' =
       IF ~IsNull(selectedMarkerIndex) THEN Null
       ELSE onCloseIndex(platform, selectedMarkerIndex)
  /\ showForm' = FALSE
  /\ formulario' = Null
  /\ UNCHANGED <<platform, csvMarkers, markerOtimo, markerType, newMarkerCoords,
                 frutas, pendingImports, envios>>

(***************************************************************************)
(* CsvImporter.handleImportCSV.                                            *)
(***************************************************************************)
PendingCount == LET RECURSIVE Sum(_)
                    Sum(S) == IF S = {} THEN 0
                              ELSE LET f == CHOOSE x \in S : TRUE
                                   IN pendingImports[f] + Sum(S \ {f})
                IN Sum(FileNames)

\* the button is pressed and a file picked: its read is now in flight
ImportPress(file) ==
  /\ MapReachable
  /\ PendingCount < MaxPendingImports
  /\ pendingImports' = [pendingImports EXCEPT ![file] = @ + 1]
  /\ UNCHANGED <<platform, markers, csvMarkers, markerOtimo, mapVars,
                 formulario, envios, crashed>>

\* the read is done and every row maps: complete hands the markers to
\* onImport = setCsvMarkers, and MapComponent's effect copies them to the store
ImportComplete(file) ==
  /\ Running
  /\ pendingImports[file] > 0
  /\ ~csvThrows(fileRows(file))
  /\ pendingImports' = [pendingImports EXCEPT ![file] = @ - 1]
  /\ csvMarkers' = csvMarkersOf(fileRows(file))
  /\ StoreUpdate(importedEffect(markers, csvMarkers'))
  /\ UNCHANGED <<platform, markerOtimo, mapVars, formulario, envios>>

\* the read is done and a row throws inside complete: the catch of
\* handleImportCSV shows the alert and onImport is never called
ImportThrows(file) ==
  /\ Running
  /\ pendingImports[file] > 0
  /\ csvThrows(fileRows(file))
  /\ pendingImports' = [pendingImports EXCEPT ![file] = @ - 1]
  /\ UNCHANGED <<platform, markers, csvMarkers, markerOtimo, mapVars,
                 formulario, envios, crashed>>

(***************************************************************************)
(* Home.Enviar: one invocation per press.  Its positions are               *)
(*   "idle"    not started                                                 *)
(*   "fetch"   awaiting submit(markers): the request is in flight with     *)
(*             the body written at the press                               *)
(*   "json"    awaiting response.json(); response is the body received,    *)
(*             Null when it is no JSON                                     *)
(*   "done"    setMarkerOtimo(data) has run                                *)
(*   "failed"  the catch has logged the error; error is what was logged:   *)
(*             "fetch" the rejection of the request, "json" the rejection  *)
(*             of response.json()                                          *)
(***************************************************************************)
\* the invocation a press starts: the first one not yet used
nextEnvio(es) ==
  IF \E i \in EnvioIds : es[i].pc = "idle"
  THEN Some(CHOOSE i \in EnvioIds :
              es[i].pc = "idle" /\ \A j \in EnvioIds : j < i => es[j].pc # "idle")
  ELSE Null
\* a result kept only when no later submission was started
enviarResult_latestOnly(otimo, es, id) ==
  IF \E j \in EnvioIds : j > id /\ es[j].pc # "idle" THEN otimo
  ELSE Some(Val(es[id].response))
\* the result on display once invocation id has parsed its response
enviarResult(otimo, es, id) == Some(Val(es[id].response))

EnviarPress ==
  /\ MapReachable
  /\ ~IsNull(nextEnvio(envios))
  /\ envios' = [envios EXCEPT ![Val(nextEnvio(envios))] =
                  [pc |-> "fetch", body |-> stringify(markers)]]
  /\ UNCHANGED <<platform, markers, csvMarkers, markerOtimo, mapVars,
                 formulario, pendingImports, crashed>>

\* fetch resolves with a response
FetchResolve(id, resp) ==
  /\ Running
  /\ envios[id].pc = "fetch"
  /\ envios' = [envios EXCEPT ![id] = [pc |-> "json", response |-> resp]]
  /\ UNCHANGED <<platform, markers, csvMarkers, markerOtimo, mapVars,
                 formulario, pendingImports, crashed>>

\* fetch rejects: catch, console.error
FetchReject(id) ==
  /\ Running
  /\ envios[id].pc = "fetch"
  /\ envios' = [envios EXCEPT ![id] = [pc |-> "failed", error |-> "fetch"]]
  /\ UNCHANGED <<platform, markers, csvMarkers, markerOtimo, mapVars,
                 formulario, pendingImports, crashed>>

\* response.json() resolves: setMarkerOtimo(data)
JsonResolve(id) ==
  /\ Running
  /\ envios[id].pc = "json"
  /\ ~IsNull(envios[id].response)
  /\ markerOtimo' = enviarResult(markerOtimo, envios, id)
  /\ envios' = [envios EXCEPT ![id] = [pc |-> "done", data |-> Val(envios[id].response)]]
  /\ UNCHANGED <<platform, markers, csvMarkers, mapVars, formulario,
                 pendingImports, crashed>>

\* a catch that also takes the result off the display
JsonReject_clears(id) ==
  /\ Running
  /\ envios[id].pc = "json"
  /\ IsNull(envios[id].response)
  /\ envios' = [envios EXCEPT ![id] = [pc |-> "failed", error |-> "json"]]
  /\ markerOtimo' = Null
  /\ UNCHANGED <<platform, markers, csvMarkers, mapVars, formulario,
                 pendingImports, crashed>>

\* response.json() rejects: catch, console.error
JsonReject(id) ==
  /\ Running
  /\ envios[id].pc = "json"
  /\ IsNull(envios[id].response)
  /\ envios' = [envios EXCEPT ![id] = [pc |-> "failed", error |-> "json"]]
  /\ UNCHANGED <<platform, markers, csvMarkers, markerOtimo, mapVars,
                 formulario, pendingImports, crashed>>

(***************************************************************************)
(* Spec: the map, the form and the importer, with every field of the form  *)
(* edited; the files are a one-row file and a file with a header only.     *)
(***************************************************************************)
Next ==
  \/ \E pt \in ClickPoints : MapClick(pt)
  \/ \E i \in 0..MaxMarkers : MarkerClick(i)
  \/ \E t \in Tipos : SetTipo(t)
  \/ SetQuantidade(<<"7">>)
  \/ SetBusca(<<"U","V">>)
  \/ \E f \in sugestoes : AdicionarFruta(f)
  \/ RemoverFruta(Uva)
  \/ Salvar
  \/ Cancelar
  \/ Excluir
  \/ \E file \in {"um.csv", "vazio.csv"} : ImportPress(file)
  \/ \E file \in FileNames : ImportComplete(file)

Spec == Init /\ [][Next]_vars

(***************************************************************************)
(* SpecCsv: the map and the importer over every file; the form is saved    *)
(* as it opens.                                                            *)
(***************************************************************************)
NextCsv ==
  \/ \E pt \in ClickPoints : MapClick(pt)
  \/ \E i \in 0..MaxMarkers : MarkerClick(i)
  \/ Salvar
  \/ Cancelar
  \/ Excluir
  \/ \E file \in FileNames \ {"repetida.csv"} : ImportPress(file)
  \/ \E file \in FileNames : ImportComplete(file)
  \/ \E file \in FileNames : ImportThrows(file)

SpecCsv == Init /\ [][NextCsv]_vars

(***************************************************************************)
(* SpecFormulario: the form's product list, searched with a text that two  *)
(* products match, over markers made by hand and a file that names a       *)
(* product twice.                                                          *)
(***************************************************************************)
NextFormulario ==
  \/ \E pt \in ClickPoints : MapClick(pt)
  \/ \E i \in 0..MaxMarkers : MarkerClick(i)
  \/ SetBusca(<<"E">>)
  \/ \E f \in sugestoes : AdicionarFruta(f)
  \/ \E f \in {Melancia, Pera} : RemoverFruta(f)
  \/ Salvar
  \/ Cancelar
  \/ Excluir
  \/ ImportPress("repetida.csv")
  \/ \E file \in FileNames : ImportComplete(file)

SpecFormulario == Init /\ [][NextFormulario]_vars

(***************************************************************************)
(* SpecEnviar: submissions, over lists made by hand.                       *)
(***************************************************************************)
NextEnviar ==
  \/ \E pt \in ClickPoints : MapClick(pt)
  \/ \E i \in 0..MaxMarkers : MarkerClick(i)
  \/ Salvar
  \/ Cancelar
  \/ Excluir
  \/ EnviarPress
  \/ \E id \in EnvioIds : \E r \in Results : FetchResolve(id, Some(r))
  \/ \E id \in EnvioIds : FetchResolve(id, Null)
  \/ \E id \in EnvioIds : FetchReject(id)
  \/ \E id \in EnvioIds : JsonResolve(id)
  \/ \E id \in EnvioIds : JsonReject(id)

SpecEnviar == Init /\ [][NextEnviar]_vars

(***************************************************************************)
(* Properties.                                                             *)
(***************************************************************************)
\* the marker the open form describes: its type, the coordinate it was opened
\* with, its product list and its quantity read as a whole number
formMarker ==
  [type |-> Val(formulario).tipo,
   coords |-> Val(newMarkerCoords),
   frutas |-> Val(formulario).selecionadas,
   quantidade |-> parseInt(Val(formulario).quantidade)]

\* the step is a save (a delete) of a form opened from an existing marker
SaveOfExisting == Salvar /\ ~IsNull(selectedMarkerIndex)
DeleteOfExisting == Excluir /\ ~IsNull(selectedMarkerIndex)
\* the step is a save (a delete) of a form opened by a click on the empty map
SaveOfNew == Salvar /\ IsNull(selectedMarkerIndex)
DeleteOfNew == Excluir /\ IsNull(selectedMarkerIndex)

\* the list without its element at position i (from 1)
WithoutAt(ms, i) == SubSeq(ms, 1, i - 1) \o SubSeq(ms, i + 1, Len(ms))

\* C1: saving the form opened from the marker at index i keeps the length of
\* the list, puts the marker built from the form's data at position i and
\* leaves every other position as it was, on the web and on native.
C1_SaveReplacesAtIndex ==
  [][SaveOfExisting =>
       LET i == Val(selectedMarkerIndex) + 1
       IN /\ Len(markers') = Len(markers)
          /\ i <= Len(markers')
          /\ markers'[i] = formMarker
          /\ \A k \in 1..Len(markers) : k # i => markers'[k] = markers[k]]_vars

\* C2: delete on the form opened from the marker at index i removes exactly
\* that marker, the others keep their order, and the selection is cleared;
\* delete on a form that references no marker removes nothing.
C2_DeleteRemovesAtIndex ==
  [][/\ DeleteOfExisting =>
          LET i == Val(selectedMarkerIndex) + 1
          IN /\ Len(markers') = Len(markers) - 1
             /\ i <= Len(markers)
             /\ markers' = WithoutAt(markers, i)
             /\ selectedMarkerIndex' = Null
     /\ DeleteOfNew => markers' = markers]_vars

\* C3: a click on the empty map opens the form on the clicked coordinate with
\* no marker referenced, and saving that form appends exactly one marker, with
\* that coordinate and the form's type and product list, after the existing
\* markers, which keep their positions and contents.
C3_ClickThenSaveAppends ==
  /\ [](FormOpen /\ IsNull(selectedMarkerIndex) =>
          \E pt \in ClickPoints :
             newMarkerCoords = Some(clickCoordinate(platform, pt[1], pt[2])))
  /\ [][(\E pt \in ClickPoints : MapClick(pt)) =>
          /\ IsNull(selectedMarkerIndex')
          /\ \E pt \in ClickPoints :
               newMarkerCoords' = Some(clickCoordinate(platform, pt[1], pt[2]))]_vars
  /\ [][SaveOfNew =>
          /\ Len(markers') = Len(markers) + 1
          /\ markers'[Len(markers')] = formMarker
          /\ \A k \in 1..Len(markers) :
               IsMarker(markers[k]) => markers'[k] = markers[k]]_vars

\* C3 witness: an imported marker followed by one made by hand, a producer of
\* Uva at the clicked coordinate
C3_Witness ==
  /\ ~showForm
  /\ Len(markers) = 2
  /\ markers[1] = rowToMarker(rowFabrica)
  /\ \E pt \in ClickPoints :
       markers[2] = [type |-> produtor,
                     coords |-> clickCoordinate(platform, pt[1], pt[2]),
                     frutas |-> <<Uva>>,
                     quantidade |-> Num(7)]

\* the text of the form's quantity field stands for the quantity q: it is the
\* string itself when q is one, and reads as the number q otherwise
QuantityShown(text, q) ==
  IF "str" \in DOMAIN q THEN text = q.str ELSE parseInt(text) = q

\* C6: a click on the marker at index i opens the form filled with that
\* marker's type, coordinates, product list and quantity, and keeps i as the
\* index a following save or delete uses.
C6_MarkerClickPrefills ==
  [][\A i \in 0..MaxMarkers : MarkerClick(i) =>
        /\ showForm'
        /\ selectedMarkerIndex' = Some(i)
        /\ Val(formulario').tipo = markers[i + 1].type
        /\ newMarkerCoords' = Some(markers[i + 1].coords)
        /\ Val(formulario').selecionadas = markers[i + 1].frutas
        /\ QuantityShown(Val(formulario').quantidade, markers[i + 1].quantidade)]_vars

\* C8: while the form is open with a selected index, that index is a position
\* of the current list.
C8_SelectedIndexInBounds ==
  (FormOpen /\ ~IsNull(selectedMarkerIndex)) =>
     (0 <= Val(selectedMarkerIndex) /\ Val(selectedMarkerIndex) < Len(markers))

\* the read of file has ended in this step
ImportEnds(file) == pendingImports'[file] < pendingImports[file]

\* C4: every marker the importer produces, and so every marker of the store
\* after an import, has one of the two fixed types.
C4_ImportedTypesAreTags ==
  /\ \A k \in 1..Len(csvMarkers) : csvMarkers[k].type \in Tipos
  /\ \A k \in 1..Len(markers) : IsMarker(markers[k]) => markers[k].type \in Tipos

\* the rows of a file that can be converted, in file order
RECURSIVE convertibleRows(_)
convertibleRows(rows) ==
  IF rows = <<>> THEN <<>>
  ELSE IF IsNull(Head(rows).quantidade) THEN convertibleRows(Tail(rows))
  ELSE <<Head(rows)>> \o convertibleRows(Tail(rows))

\* C5: when the read of a file ends, the rows that can be converted are
\* converted and handed to the caller, also when another row of the file
\* cannot be converted.
C5_BadRowDoesNotBlock ==
  [][\A file \in FileNames : ImportEnds(file) =>
        LET good == convertibleRows(fileRows(file))
        IN /\ Len(csvMarkers') = Len(good)
           /\ \A k \in 1..Len(good) : csvMarkers'[k] = rowToMarker(good[k])]_vars

\* C10: when an import completes the store holds exactly the imported
\* markers, in the order of the file's rows, whatever it held before; a marker
\* added to the imported list is appended to it.
C10_ImportOverwrites ==
  /\ [][\A file \in FileNames :
          (ImportEnds(file) /\ ~csvThrows(fileRows(file))) =>
             /\ Len(markers') = Len(fileRows(file))
             /\ \A k \in 1..Len(fileRows(file)) :
                  markers'[k] = rowToMarker(fileRows(file)[k])]_vars
  /\ [][(SaveOfNew /\ markers = csvMarkers) =>
          markers' = Append(csvMarkers, formMarker)]_vars

\* C10 witness: the store holds the one imported marker of um.csv followed by
\* a marker made by hand after the import
C10_Witness ==
  /\ csvMarkers = <<rowToMarker(rowFabrica)>>
  /\ Len(markers) = 2
  /\ markers[1] = csvMarkers[1]
  /\ \E pt \in ClickPoints :
       markers[2].coords = clickCoordinate(platform, pt[1], pt[2])

\* no element occurs twice
NoDup(seq) == \A i, j \in 1..Len(seq) : seq[i] = seq[j] => i = j

\* C7: a form opened with an empty product list never holds a product twice;
\* removing a product leaves a list without it, and leaves the list as it is
\* when the product is not selected; the list grows only by one product that
\* was not selected.
C7_TagsIdempotent ==
  /\ []((FormOpen /\ (IsNull(frutas) \/ Val(frutas) = <<>>)) =>
          NoDup(Val(formulario).selecionadas))
  /\ [][\A f \in {Melancia, Pera} : RemoverFruta(f) =>
          /\ ~Contains(Val(formulario').selecionadas, f)
          /\ ~Contains(Val(formulario).selecionadas, f) => formulario' = formulario]_vars
  /\ [][(/\ ~IsNull(formulario) /\ ~IsNull(formulario')
         /\ selectedMarkerIndex' = selectedMarkerIndex
         /\ Len(Val(formulario').selecionadas) > Len(Val(formulario).selecionadas)) =>
          \E f \in {frutasDisponiveis[i] : i \in 1..Len(frutasDisponiveis)} :
             /\ ~Contains(Val(formulario).selecionadas, f)
             /\ Val(formulario').selecionadas =
                  Append(Val(formulario).selecionadas, f)]_vars

\* C7 witness: a form opened by a click on the map, with two products added
C7_Witness ==
  /\ FormOpen
  /\ IsNull(frutas)
  /\ Val(formulario).selecionadas = <<Pera, Melancia>>

\* C9: a press starts a request of its own with the list as it is at the
\* press, whatever is in flight, and leaves the other requests alone; a press
\* is possible while requests are in flight; the result on display is the data
\* of the response parsed last, and changes at no other step.
C9_SubmissionsIndependent ==
  /\ [][\A id \in EnvioIds : (envios[id].pc = "idle" /\ envios'[id].pc # "idle") =>
          /\ envios'[id] = [pc |-> "fetch", body |-> stringify(markers)]
          /\ \A j \in EnvioIds \ {id} : envios'[j] = envios[j]
          /\ markerOtimo' = markerOtimo]_vars
  /\ []((MapReachable /\ \E id \in EnvioIds : envios[id].pc = "idle") =>
          ENABLED EnviarPress)
  /\ [][\A id \in EnvioIds : (envios[id].pc = "json" /\ envios'[id].pc = "done") =>
          markerOtimo' = envios[id].response]_vars
  /\ [][markerOtimo' # markerOtimo =>
          \E id \in EnvioIds : envios[id].pc = "json" /\ envios'[id].pc = "done"]_vars

\* C9 witness: the first submission's response was parsed after the second's,
\* and its data is on display
C9_Witness ==
  /\ envios[1].pc = "done"
  /\ envios[2].pc = "done"
  /\ \A id \in EnvioIds \ {1, 2} : envios[id].pc = "idle"
  /\ envios[1].data # envios[2].data
  /\ markerOtimo = Some(envios[1].data)

\* C11: a submission fails only by a rejected request or a body that is no
\* JSON; the step that fails it logs that error in the catch of its own
\* invocation, starts no request, leaves the result on display, the shared
\* list and the other invocations as they were and does not stop the
\* application; a failed invocation never moves again.
C11_FailureLeavesState ==
  /\ [][\A id \in EnvioIds :
          (envios[id].pc # "failed" /\ envios'[id].pc = "failed") =>
            /\ \/ envios[id].pc = "fetch" /\ envios'[id].error = "fetch"
               \/ /\ envios[id].pc = "json"
                  /\ IsNull(envios[id].response)
                  /\ envios'[id].error = "json"
            /\ markerOtimo' = markerOtimo
            /\ markers' = markers
            /\ crashed' = crashed
            /\ \A j \in EnvioIds \ {id} : envios'[j] = envios[j]]_vars
  /\ [][\A id \in EnvioIds :
          envios[id].pc = "failed" => envios'[id] = envios[id]]_vars

\* C11 witness: with a marker in the list, the first submission's result is
\* on display and the second submission's body was no JSON
C11_Witness ==
  /\ markers # <<>>
  /\ envios[1].pc = "done"
  /\ envios[2] = [pc |-> "failed", error |-> "json"]
  /\ markerOtimo = Some(envios[1].data)
  /\ ~crashed

=============================================================================
